---- MODULE Spec2Model ----
(***************************************************************************)
(* TV backlight integration of the audio visualizer:                       *)
(*   BacklightSystem             (backlight-integration.js, class 1)       *)
(*   BacklightVisualizer         (backlight-integration.js, class 2)       *)
(*   BacklightRecordingOptimizer (backlight-integration.js, class 3)       *)
(*   BacklightConfigDialog       (the configuration dialog)                *)
(* The renderer's parameter bag (visualizer.options) is shared by the      *)
(* controller and the recording optimizer.                                 *)
(*                                                                         *)
(* Fractions are kept in hundredths (0.7 is 70, 1.2 is 120), which is the  *)
(* unit of the dialog's sliders (parseInt(value) / 100).                   *)
(***************************************************************************)
EXTENDS Integers, Sequences, FiniteSets, TLC

VARIABLES
  bl,        \* the BacklightSystem object's fields
  options,   \* visualizer.options, the renderer's parameter bag
  scans,     \* scanForBacklightSystems promises not yet resolved
  ro,        \* the BacklightRecordingOptimizer object's fields
  rec,       \* the MediaRecorder objects created so far (a sequence)
  viz,       \* the BacklightVisualizer object's fields and its canvas
  dialog,    \* the BacklightConfigDialog object's fields
  lastOp,    \* history: the operation or event that produced this state
  hist,      \* history: values remembered for the properties below
  call       \* history: the arguments and the result of the latest call of
             \* getAverageColorString, sampleEdgeColors or draw

vars == <<bl, options, scans, ro, rec, viz, dialog, lastOp, hist, call>>

----------------------------------------------------------------------------
(* Values *)

\* JavaScript's undefined / null
Undefined == "undefined"
\* an object-valued field that is null or was never assigned
Null == [null |-> TRUE]

\* if (v) on a string-or-null value
Truthy(v) == v \notin {Undefined, ""}

BacklightModes == {"adaptive", "direct", "ambilight"}
TransitionSpeeds == {"slow", "medium", "fast"}

\* the renderer's own visualization modes, and the one the backlight code writes
RendererModes == {"spectrum", "waveform"}
VisualizationModes == RendererModes \cup {"backlight"}

\* values the renderer's numeric parameters start with or are set to by its own UI
RendererIntensities == {100, 105}

\* the four parameters the controller overrides
Bag4(o) == [colorIntensity |-> o.colorIntensity, edgeFalloff |-> o.edgeFalloff,
            transitionSpeed |-> o.transitionSpeed,
            visualizationMode |-> o.visualizationMode]

\* the three parameters the recording optimizer overrides
Bag3(o) == [colorSaturation |-> o.colorSaturation,
            visualizationMode |-> o.visualizationMode,
            edgeEmphasis |-> o.edgeEmphasis]

----------------------------------------------------------------------------
(* BacklightSystem.  Each method is an operator on the pair                *)
(* s = [bl |-> the object, options |-> visualizer.options, scans |-> n].   *)

SystemNames == {"Govee", "Philips Hue", "WLED", "Hyperion"}

\* supportedSystems in array order
SystemOrder == <<"Govee", "Philips Hue", "WLED", "Hyperion">>

\* zones of the horizontal and of the vertical strips
topBottomCount == 16
leftRightCount == 9

initializeEdgeZones ==
  [top |-> [i \in 1..topBottomCount |-> <<0, 0, 0>>],
   bottom |-> [i \in 1..topBottomCount |-> <<0, 0, 0>>],
   left |-> [i \in 1..leftRightCount |-> <<0, 0, 0>>],
   right |-> [i \in 1..leftRightCount |-> <<0, 0, 0>>]]

\* this.visualizer: the controller is constructed with the page's visualizer
visualizer == "AudioVisualizer"

BacklightSystemInit ==
  [isEnabled |-> FALSE,
   backlightMode |-> "adaptive",
   edgeEmphasis |-> 70,
   colorSaturation |-> 120,
   smoothingFactor |-> 30,
   transitionSpeed |-> "medium",
   previousSettings |-> Null,
   previousVisualizationMode |-> Undefined,
   supportedSystems |-> [n \in SystemNames |-> FALSE],
   edgeZones |-> initializeEdgeZones]

enableEdgeEmphasisMode(s) ==
  IF visualizer = Undefined THEN s
  ELSE [s EXCEPT !.bl.previousVisualizationMode = s.options.visualizationMode,
                 !.options.visualizationMode = "backlight"]

applyOptimizedSettings(s) ==
  IF visualizer = Undefined THEN s
  ELSE LET t == [s EXCEPT
                   !.bl.previousSettings = Bag4(s.options),
                   !.options.colorIntensity = s.bl.colorSaturation,
                   !.options.edgeFalloff = s.bl.edgeEmphasis,
                   !.options.transitionSpeed = s.bl.transitionSpeed]
       IN IF s.bl.backlightMode = "adaptive" THEN enableEdgeEmphasisMode(t) ELSE t

\* restoreStandardSettings without its restore of the visualization mode
restoreStandardSettings_keepsMode(s) ==
  IF visualizer = Undefined \/ s.bl.previousSettings = Null THEN s
  ELSE [s EXCEPT
          !.options.colorIntensity = s.bl.previousSettings.colorIntensity,
          !.options.edgeFalloff = s.bl.previousSettings.edgeFalloff,
          !.options.transitionSpeed = s.bl.previousSettings.transitionSpeed]

restoreStandardSettings(s) ==
  IF visualizer = Undefined \/ s.bl.previousSettings = Null THEN s
  ELSE LET t == [s EXCEPT
                   !.options.colorIntensity = s.bl.previousSettings.colorIntensity,
                   !.options.edgeFalloff = s.bl.previousSettings.edgeFalloff,
                   !.options.transitionSpeed = s.bl.previousSettings.transitionSpeed]
       IN IF Truthy(s.bl.previousVisualizationMode)
          THEN [t EXCEPT !.options.visualizationMode = s.bl.previousVisualizationMode,
                         !.bl.previousVisualizationMode = Undefined]
          ELSE t

\* toggle that falls back to the adaptive mode whenever it enables
toggle_resetsMode(s, on) ==
  LET t == [s EXCEPT !.bl.isEnabled = on,
                     !.bl.backlightMode = IF on THEN "adaptive" ELSE @]
  IN IF on THEN applyOptimizedSettings(t) ELSE restoreStandardSettings(t)

toggle(s, on) ==
  LET t == [s EXCEPT !.bl.isEnabled = on]
  IN IF on THEN applyOptimizedSettings(t) ELSE restoreStandardSettings(t)

\* starts a scan; its promise resolves later (ScanResolved)
attemptDirectConnection(s) == [s EXCEPT !.scans = s.scans + 1]

\* setMode whose direct case falls through into the ambilight case
setMode_directFallsThrough(s, mode) ==
  LET t == [s EXCEPT !.bl.backlightMode = mode]
  IN CASE mode = "adaptive" ->
            [t EXCEPT !.bl.edgeEmphasis = 70, !.bl.colorSaturation = 120,
                      !.bl.smoothingFactor = 30]
       [] mode = "direct" ->
            [attemptDirectConnection(t) EXCEPT
               !.bl.edgeEmphasis = 90, !.bl.colorSaturation = 140,
               !.bl.smoothingFactor = 20]
       [] mode = "ambilight" ->
            [t EXCEPT !.bl.edgeEmphasis = 90, !.bl.colorSaturation = 140,
                      !.bl.smoothingFactor = 20]
       [] OTHER -> t

setMode(s, mode) ==
  LET t == [s EXCEPT !.bl.backlightMode = mode]
  IN CASE mode = "adaptive" ->
            [t EXCEPT !.bl.edgeEmphasis = 70, !.bl.colorSaturation = 120,
                      !.bl.smoothingFactor = 30]
       [] mode = "direct" -> attemptDirectConnection(t)
       [] mode = "ambilight" ->
            [t EXCEPT !.bl.edgeEmphasis = 90, !.bl.colorSaturation = 140,
                      !.bl.smoothingFactor = 20]
       [] OTHER -> t

\* the descriptors the simulated scan resolves with
discovered == <<[type |-> "Govee", id |-> "H6199"]>>

connectToSystem(s, system) ==
  IF system.type \in SystemNames
  THEN [s EXCEPT !.bl.supportedSystems[system.type] = TRUE]
  ELSE s

\* the vendor setup routine connectToSystem runs for the descriptor
connectionSetup(s, system) ==
  IF system.type \notin SystemNames THEN "none"
  ELSE CASE system.type = "Govee" -> "setupGoveeConnection"
         [] system.type = "Philips Hue" -> "setupPhilipsHueConnection"
         [] system.type = "WLED" -> "setupWLEDConnection"
         [] OTHER -> "none"

RECURSIVE connectAll(_, _)
\* availableSystems.forEach(system => this.connectToSystem(system))
connectAll(s, systems) ==
  IF systems = <<>> THEN s
  ELSE connectAll(connectToSystem(s, Head(systems)), Tail(systems))

----------------------------------------------------------------------------
(* The frame path of BacklightSystem: sampling and device dispatch.        *)
(* A frame is [width, height, image]: the arguments of processFrame and    *)
(* what the canvas shows.                                                  *)

\* reading the pixel array outside its bounds yields undefined
UndefinedByte == -1
\* arithmetic on undefined yields NaN
NaN == -2

\* the color of the canvas at (x, y)
Pixel(f, x, y) ==
  IF f.image = "ramp" THEN <<(8 * x) % 256, (8 * y) % 256, 200>>
  ELSE IF f.image = "steps"
  THEN <<(37 * x + 11 * y) % 256, (5 * x * x + y) % 256, 255 - ((8 * x) % 256)>>
  ELSE <<250, 100, 0>>

\* imageData.data[index] of ctx.getImageData(0, 0, width, height)
dataAt(f, index) ==
  IF index < 0 \/ index >= f.width * f.height * 4 THEN UndefinedByte
  ELSE LET p == index \div 4
       IN IF index % 4 = 3 THEN 255
          ELSE Pixel(f, p % f.width, p \div f.width)[(index % 4) + 1]

\* rgbAt reading the pixel after the one asked for
rgbAt_nextPixel(f, pixelIndex) ==
  <<dataAt(f, pixelIndex + 4), dataAt(f, pixelIndex + 5), dataAt(f, pixelIndex + 6)>>

\* [data[pixelIndex], data[pixelIndex + 1], data[pixelIndex + 2]]
rgbAt(f, pixelIndex) ==
  <<dataAt(f, pixelIndex), dataAt(f, pixelIndex + 1), dataAt(f, pixelIndex + 2)>>

\* getImageData throws IndexSizeError when the width or the height is zero
getImageDataThrows(f) == f.width = 0 \/ f.height = 0

\* sampledZones with one top zone per pixel column
sampledZones_topPerColumn(zones, f) ==
  [top |-> [k \in 1..f.width |-> rgbAt(f, ((k - 1) + 2 * f.width) * 4)],
   bottom |-> [k \in 1..Len(zones.bottom) |->
              LET x == ((k - 1) * f.width) \div Len(zones.bottom)
              IN rgbAt(f, (x + (f.height - 3) * f.width) * 4)],
   left |-> [k \in 1..Len(zones.left) |->
              LET y == ((k - 1) * f.height) \div Len(zones.left)
              IN rgbAt(f, (2 + y * f.width) * 4)],
   right |-> [k \in 1..Len(zones.right) |->
              LET y == ((k - 1) * f.height) \div Len(zones.right)
              IN rgbAt(f, (f.width - 3 + y * f.width) * 4)]]

\* the zones sampleEdgeColors writes; zone i of the code is entry i + 1
sampledZones(zones, f) ==
  [top |-> [k \in 1..Len(zones.top) |->
              LET x == ((k - 1) * f.width) \div Len(zones.top)
              IN rgbAt(f, (x + 2 * f.width) * 4)],
   bottom |-> [k \in 1..Len(zones.bottom) |->
              LET x == ((k - 1) * f.width) \div Len(zones.bottom)
              IN rgbAt(f, (x + (f.height - 3) * f.width) * 4)],
   left |-> [k \in 1..Len(zones.left) |->
              LET y == ((k - 1) * f.height) \div Len(zones.left)
              IN rgbAt(f, (2 + y * f.width) * 4)],
   right |-> [k \in 1..Len(zones.right) |->
              LET y == ((k - 1) * f.height) \div Len(zones.right)
              IN rgbAt(f, (f.width - 3 + y * f.width) * 4)]]

sampleEdgeColors(s, f) ==
  IF getImageDataThrows(f) THEN s
  ELSE [s EXCEPT !.bl.edgeZones = sampledZones(s.bl.edgeZones, f)]

\* (saturation, average) pairs whose double product avg * saturation lies
\* just below the integer the exact product is, so that Math.floor yields
\* one less; for the saturations 1.0, 1.1, 1.2, 1.3 and 1.4
FloorOneLess ==
  {<<140, 45>>, <<140, 85>>, <<140, 90>>, <<140, 165>>, <<140, 170>>,
   <<140, 175>>, <<140, 180>>}

\* saturate without Math.min
saturate_unclamped(avg, saturation) ==
  IF avg = NaN THEN NaN
  ELSE (avg * saturation) \div 100 -
       (IF <<saturation, avg>> \in FloorOneLess THEN 1 ELSE 0)

\* Math.min(255, Math.floor(avg * this.colorSaturation))
saturate(avg, saturation) ==
  IF avg = NaN THEN NaN
  ELSE LET product == (avg * saturation) \div 100 -
                      (IF <<saturation, avg>> \in FloorOneLess THEN 1 ELSE 0)
       IN IF product > 255 THEN 255 ELSE product

RECURSIVE channelTotal(_, _)
\* totalR += color[0] over the array; undefined makes the total NaN
channelTotal(colorArray, c) ==
  IF colorArray = <<>> THEN 0
  ELSE LET rest == channelTotal(Tail(colorArray), c)
           v == Head(colorArray)[c]
       IN IF v = UndefinedByte \/ rest = NaN THEN NaN ELSE v + rest

\* getAverageColorString taking the first color for every zone
getAverageColorString_firstColor(colorArray, saturation) ==
  [c \in 1..3 |->
     LET total == IF colorArray = <<>> THEN 0
                  ELSE IF Head(colorArray)[c] = UndefinedByte THEN NaN
                  ELSE Head(colorArray)[c] * Len(colorArray)
         avg == IF total = NaN \/ colorArray = <<>> THEN NaN
                ELSE total \div Len(colorArray)
     IN saturate(avg, saturation)]

\* the three numbers getAverageColorString puts into its rgba() string
getAverageColorString(colorArray, saturation) ==
  [c \in 1..3 |->
     LET total == channelTotal(colorArray, c)
         avg == IF total = NaN \/ colorArray = <<>> THEN NaN
                ELSE total \div Len(colorArray)
     IN saturate(avg, saturation)]

\* the value of cmd.value in formatDataForGovee
formatDataForGovee(s) == s.bl.edgeZones.top[(Len(s.bl.edgeZones.top) \div 2) + 1]

\* the vendors sendColorDataToConnectedSystems has a branch for
sendBranches == {"Govee", "Philips Hue", "WLED"}

\* the send routines sendColorDataToConnectedSystems calls, in order
sendColorDataToConnectedSystems(s) ==
  SelectSeq(SystemOrder,
            LAMBDA n : s.bl.supportedSystems[n] /\ n \in sendBranches)

\* processFrame with the mode test of the dispatch left out
processFrame_dispatchesInAnyMode(s, f) ==
  IF ~s.bl.isEnabled
  THEN [s |-> s, threw |-> FALSE, dispatches |-> 0, sends |-> <<>>,
        govee |-> <<>>, emphasis |-> FALSE]
  ELSE IF getImageDataThrows(f)
  THEN [s |-> s, threw |-> TRUE, dispatches |-> 0, sends |-> <<>>,
        govee |-> <<>>, emphasis |-> FALSE]
  ELSE LET t == sampleEdgeColors(s, f)
       IN [s |-> t, threw |-> FALSE,
           dispatches |-> 1,
           sends |-> sendColorDataToConnectedSystems(s),
           govee |-> IF s.bl.supportedSystems["Govee"]
                     THEN <<formatDataForGovee(t)>> ELSE <<>>,
           emphasis |-> s.bl.backlightMode \in {"adaptive", "ambilight"}]

\* processFrame: the controller after the call, and what the call did
processFrame(s, f) ==
  IF ~s.bl.isEnabled
  THEN [s |-> s, threw |-> FALSE, dispatches |-> 0, sends |-> <<>>,
        govee |-> <<>>, emphasis |-> FALSE]
  ELSE IF getImageDataThrows(f)
  THEN [s |-> s, threw |-> TRUE, dispatches |-> 0, sends |-> <<>>,
        govee |-> <<>>, emphasis |-> FALSE]
  ELSE LET t == sampleEdgeColors(s, f)
           direct == s.bl.backlightMode = "direct"
       IN [s |-> t, threw |-> FALSE,
           dispatches |-> IF direct THEN 1 ELSE 0,
           sends |-> IF direct THEN sendColorDataToConnectedSystems(s) ELSE <<>>,
           govee |-> IF direct /\ s.bl.supportedSystems["Govee"]
                     THEN <<formatDataForGovee(t)>> ELSE <<>>,
           emphasis |-> s.bl.backlightMode \in {"adaptive", "ambilight"}]

----------------------------------------------------------------------------
(* BacklightRecordingOptimizer.  enable and disable are operators on the   *)
(* pair r = [ro |-> the object, options |-> visualizer.options].           *)

\* no recorder: this.recorder is null
NoRecorder == 0

BacklightRecordingOptimizerInit ==
  [isEnabled |-> FALSE,
   originalSettings |-> Null,
   recorder |-> NoRecorder,
   recordedChunks |-> 0]

enable(r) ==
  IF visualizer = Undefined THEN r
  ELSE [r EXCEPT !.ro.originalSettings = Bag3(r.options),
                 !.options.colorSaturation = 130,
                 !.options.visualizationMode = "backlight",
                 !.options.edgeEmphasis = 90,
                 !.ro.isEnabled = TRUE]

\* disable() returns false without doing anything in this case
disableRefused(r) == visualizer = Undefined \/ r.ro.originalSettings = Null

\* disable without its restore of edgeEmphasis
disable_skipsEmphasis(r) ==
  IF disableRefused(r) THEN r
  ELSE [r EXCEPT !.options.colorSaturation = r.ro.originalSettings.colorSaturation,
                 !.options.visualizationMode = r.ro.originalSettings.visualizationMode,
                 !.ro.isEnabled = FALSE]

disable(r) ==
  IF disableRefused(r) THEN r
  ELSE [r EXCEPT !.options.colorSaturation = r.ro.originalSettings.colorSaturation,
                 !.options.visualizationMode = r.ro.originalSettings.visualizationMode,
                 !.options.edgeEmphasis = r.ro.originalSettings.edgeEmphasis,
                 !.ro.isEnabled = FALSE]

\* a MediaRecorder as startRecording creates it.  onstop is the handler
\* stopRecording installs: "none", or the state of the promise it settles.
NewRecorder(state) == [state |-> state, onstop |-> "none", stopQueued |-> FALSE]

----------------------------------------------------------------------------
(* Bounds *)

\* scanForBacklightSystems promises in flight at one time
MaxScans == 1
\* startRecording calls (with a canvas) in one run
MaxSessions == 2

----------------------------------------------------------------------------
(* History.  hist remembers what the properties compare against:           *)
(*   preFirst     the four controller-overridden parameters just before    *)
(*                the first toggle(true) since the controller was disabled *)
(*   pairClean    the operations since then were that toggle(true) alone,  *)
(*                or that toggle(true) and one toggle(false)               *)
(*   doubleEnable applyOptimizedSettings ran again before a restore        *)
(*   sessPre      the three optimizer-overridden parameters just before    *)
(*                the latest startRecording call                           *)
(*   phase        idle, started (startRecording returned true), stopping   *)
(*                (stopRecording called, promise not settled)              *)
(*   altOK        every startRecording so far was called in phase idle and *)
(*                every stopRecording in phase started                     *)
(*   enables, disables   calls of enable(), and of disable() that restored *)
(*   starts       startRecording calls with a canvas                       *)
(*   selected     the mode of the latest setMode call, "none" before the   *)
(*                first one                                                *)
(*   frame        when the latest operation was a processFrame call: the   *)
(*                controller's state and the connected records when it was *)
(*                called, and what the call did                            *)
(*   connect      when the latest operation was a batch of connectToSystem *)
(*                calls: the descriptors, the records before it, the setup *)
(*                routines it ran                                          *)

NoFrame ==
  [state |-> "disabled", connected |-> {}, threw |-> FALSE, dispatches |-> 0,
   sends |-> <<>>, govee |-> <<>>, emphasis |-> FALSE]

NoConnect ==
  [batch |-> <<>>, before |-> [n \in SystemNames |-> FALSE], setups |-> <<>>]

HistInit ==
  [preFirst |-> Null, pairClean |-> FALSE, doubleEnable |-> FALSE,
   sessPre |-> Null, phase |-> "idle", altOK |-> TRUE,
   enables |-> 0, disables |-> 0, starts |-> 0,
   selected |-> "none",
   frame |-> NoFrame,
   connect |-> NoConnect]

HistToggle(h, wasEnabled, before, on) ==
  IF on
  THEN IF wasEnabled
       THEN [h EXCEPT !.pairClean = FALSE, !.doubleEnable = TRUE,
                      !.frame = NoFrame, !.connect = NoConnect]
       ELSE [h EXCEPT !.preFirst = Bag4(before), !.pairClean = TRUE,
                      !.doubleEnable = FALSE,
                      !.frame = NoFrame, !.connect = NoConnect]
  ELSE [h EXCEPT !.pairClean = h.pairClean /\ wasEnabled,
                 !.doubleEnable = h.doubleEnable /\ wasEnabled,
                 !.frame = NoFrame, !.connect = NoConnect]

HistOther(h) ==
  [h EXCEPT !.pairClean = FALSE, !.frame = NoFrame, !.connect = NoConnect]

----------------------------------------------------------------------------
(* BacklightVisualizer and BacklightConfigDialog: the objects as their     *)
(* constructors leave them.                                                *)

\* a canvas before anything was drawn on it
NoCanvas == [width |-> 0, height |-> 0, data |-> <<>>]

BacklightVisualizerInit(mirrorMode, canvas) ==
  [mirrorMode |-> mirrorMode,
   edgePoints |-> [top |-> <<>>, right |-> <<>>, bottom |-> <<>>, left |-> <<>>],
   canvas |-> canvas]

\* the types of the devices the dialog lists
DialogDeviceTypes == {"Govee", "Philips Hue", "WLED"}

\* imageData.data of a canvas showing picture f, as a sequence: data[k] of
\* the code is entry k + 1
imageData(f) == [k \in 1..(f.width * f.height * 4) |-> dataAt(f, k - 1)]

\* the bars whose height is above 0.4 * centerHeight, for the frequency data
\* of one frame: silence, a loud frame, a frame with bass only
AudioFrames == {{}, 0..15, {0, 2, 4}}

\* the edge points one drawCenterVisualization call pushes: a point is
\* kept as the index of its bar
pushedPoints(tall) ==
  [left |-> <<0, 1, 2, 3>>,
   right |-> <<12, 13, 14, 15>>,
   top |-> SelectSeq(<<0, 4, 8, 12>>, LAMBDA i : i \in tall),
   bottom |-> SelectSeq(<<2, 6, 10, 14>>, LAMBDA i : i \in tall)]

drawCenterVisualization(v, tall) ==
  [v EXCEPT !.edgePoints =
     [top |-> v.edgePoints.top \o pushedPoints(tall).top,
      right |-> v.edgePoints.right \o pushedPoints(tall).right,
      bottom |-> v.edgePoints.bottom \o pushedPoints(tall).bottom,
      left |-> v.edgePoints.left \o pushedPoints(tall).left]]

RECURSIVE mirrorPass(_, _, _, _, _)
\* the two loops of applyMirrorEffect from row y, column x on
mirrorPass(data, width, height, y, x) ==
  IF y >= height THEN data
  ELSE IF 2 * x >= width THEN mirrorPass(data, width, height, y + 1, 0)
  ELSE LET leftIndex == (y * width + x) * 4
           rightIndex == (y * width + (width - 1 - x)) * 4
           avg(c) == (data[leftIndex + c + 1] + data[rightIndex + c + 1]) \div 2
       IN mirrorPass([data EXCEPT ![leftIndex + 1] = avg(0),
                                  ![rightIndex + 1] = avg(0),
                                  ![leftIndex + 2] = avg(1),
                                  ![rightIndex + 2] = avg(1),
                                  ![leftIndex + 3] = avg(2),
                                  ![rightIndex + 3] = avg(2)],
                     width, height, y, x + 1)

\* applyMirrorEffect copying the left half onto the right half
applyMirrorEffect_copiesLeft(width, height, data) ==
  [k \in 1..Len(data) |->
     LET p == (k - 1) \div 4
         x == p % width
         y == p \div width
     IN IF (k - 1) % 4 < 3 /\ 2 * x >= width
        THEN data[(y * width + (width - 1 - x)) * 4 + ((k - 1) % 4) + 1]
        ELSE data[k]]

\* the pixel array applyMirrorEffect puts back on the canvas
applyMirrorEffect(width, height, data) == mirrorPass(data, width, height, 0, 0)

\* draw(): the bars and their edge points, the edge emphasis, then the
\* mirror pass.  picture is what the canvas shows after drawEdgeEmphasis.
draw(v, tall, picture) ==
  LET w == drawCenterVisualization(v, tall)
      drawn == imageData(picture)
  IN [w EXCEPT !.canvas.data =
        IF v.mirrorMode
        THEN applyMirrorEffect(v.canvas.width, v.canvas.height, drawn)
        ELSE drawn]

\* this.config as the constructor sets it.  mirrorMode, detectDevices and
\* optimizeRecording are left out: applyConfig writes mirrorMode only under
\* backlightSystem.visualization, a field BacklightSystem never has, and
\* does not read the other two.
\* listed: a scan of the dialog has resolved and its devices are listed.
\* devices: the connected flags of the listed device objects, by type.
BacklightConfigDialogInit ==
  [config |-> [enabled |-> TRUE, mode |-> "adaptive", edgeEmphasis |-> 70,
               colorSaturation |-> 120, smoothingFactor |-> 30,
               transitionSpeed |-> "medium"],
   listed |-> FALSE,
   devices |-> [t \in DialogDeviceTypes |-> FALSE]]

\* the device objects simulateDeviceDiscovery returns: all not connected
simulateDeviceDiscovery == [t \in DialogDeviceTypes |-> FALSE]

\* the timer callback of scanForDevices: updateDevicesList(discoveredDevices)
scanForDevices(d) == [d EXCEPT !.listed = TRUE, !.devices = simulateDeviceDiscovery]

\* the timer callback of connectDevice(device), on the pair of the
\* controller s and the dialog d
connectDevice(s, d, device) ==
  [s |-> connectToSystem(s, device),
   d |-> [d EXCEPT !.devices[device.type] = TRUE]]

\* disconnectDevice that also clears the system's record
disconnectDevice_notifiesSystem(s, d, device) ==
  [s |-> [s EXCEPT !.bl.supportedSystems[device.type] = FALSE],
   d |-> [d EXCEPT !.devices[device.type] = FALSE]]

\* the timer callback of disconnectDevice(device)
disconnectDevice(s, d, device) ==
  [s |-> s,
   d |-> [d EXCEPT !.devices[device.type] = FALSE]]

\* no call yet
NoCall == [op |-> "none"]

----------------------------------------------------------------------------
(* State machine *)

\* the renderer, the recording optimizer and the dialog after construction
InitRest ==
  /\ options = [colorIntensity |-> 100, edgeFalloff |-> 50,
                transitionSpeed |-> "fast", visualizationMode |-> "spectrum",
                colorSaturation |-> 100, edgeEmphasis |-> 50]
  /\ scans = 0
  /\ ro = BacklightRecordingOptimizerInit
  /\ rec = <<>>
  /\ dialog = BacklightConfigDialogInit
  /\ lastOp = "new"
  /\ hist = HistInit

Init ==
  /\ bl = BacklightSystemInit
  /\ viz = BacklightVisualizerInit(FALSE, NoCanvas)
  /\ call = NoCall
  /\ InitRest

Ctl == [bl |-> bl, options |-> options, scans |-> scans]

\* backlightSystem.toggle(on)
Toggle ==
  \E on \in BOOLEAN :
    LET t == toggle(Ctl, on) IN
    /\ bl' = t.bl
    /\ options' = t.options
    /\ lastOp' = IF on THEN "toggle(true)" ELSE "toggle(false)"
    /\ hist' = HistToggle(hist, bl.isEnabled, options, on)
    /\ UNCHANGED <<scans, ro, rec, viz, dialog, call>>

\* backlightSystem.setMode(mode)
SetMode ==
  \E mode \in BacklightModes :
    LET t == setMode(Ctl, mode) IN
    /\ mode = "direct" => scans < MaxScans
    /\ bl' = t.bl
    /\ scans' = t.scans
    /\ lastOp' = "setMode"
    /\ hist' = [HistOther(hist) EXCEPT !.selected = mode]
    /\ UNCHANGED <<options, ro, rec, viz, dialog, call>>

\* the scan's promise resolves: the .then callback of attemptDirectConnection
ScanResolved ==
  /\ scans > 0
  /\ LET t == connectAll(Ctl, discovered) IN
     /\ bl' = t.bl
     /\ scans' = scans - 1
  /\ lastOp' = "scanResolved"
  /\ hist' = HistOther(hist)
  /\ UNCHANGED <<options, ro, rec, viz, dialog, call>>

\* the values the dialog's form can hold (updateConfig)
DialogConfigs ==
  [enabled : BOOLEAN, mode : BacklightModes, edgeEmphasis : {60},
   colorSaturation : {110}, smoothingFactor : {40},
   transitionSpeed : {"slow"}]

applyConfig(s, config) ==
  LET t == setMode(toggle(s, config.enabled), config.mode)
  IN [t EXCEPT !.bl.edgeEmphasis = config.edgeEmphasis,
               !.bl.colorSaturation = config.colorSaturation,
               !.bl.smoothingFactor = config.smoothingFactor,
               !.bl.transitionSpeed = config.transitionSpeed]

\* the dialog's Apply and Save buttons: updateConfig(); applyConfig()
ApplyConfig ==
  \E config \in DialogConfigs :
    LET t == applyConfig(Ctl, config) IN
    /\ config.mode = "direct" => scans < MaxScans
    /\ bl' = t.bl
    /\ options' = t.options
    /\ scans' = t.scans
    /\ lastOp' = "applyConfig"
    /\ hist' = [HistOther(HistToggle(hist, bl.isEnabled, options, config.enabled))
                  EXCEPT !.selected = config.mode]
    /\ dialog' = [dialog EXCEPT !.config = config]
    /\ UNCHANGED <<ro, rec, viz, call>>

\* the renderer's own UI changes one of its parameters
RendererSet(field, values) ==
  \E v \in values :
    /\ options' = [options EXCEPT ![field] = v]
    /\ lastOp' = "rendererSet"
    /\ hist' = HistOther(hist)
    /\ UNCHANGED <<bl, scans, ro, rec, viz, dialog, call>>

RendererSetControllerField ==
  \/ RendererSet("colorIntensity", RendererIntensities)
  \/ RendererSet("visualizationMode", RendererModes)

Next ==
  \/ Toggle
  \/ SetMode
  \/ ScanResolved
  \/ RendererSetControllerField

Spec == Init /\ [][Next]_vars

\* the controller as the configuration dialog drives it
NextDialog ==
  \/ Toggle
  \/ ApplyConfig
  \/ RendererSet("visualizationMode", RendererModes)

SpecDialog == Init /\ [][NextDialog]_vars

----------------------------------------------------------------------------
(* Frames and devices *)

\* the frames the render loop hands to processFrame
FrameWidths == {0, 32}
FrameHeights == {0, 2, 18}
Frames == [width : FrameWidths, height : FrameHeights, image : {"flat", "ramp"}]

\* the render loop: backlightSystem.processFrame(ctx, width, height)
ProcessFrame ==
  \E f \in Frames : \E out \in {processFrame(Ctl, f)} :
    /\ bl' = out.s.bl
    /\ lastOp' = "processFrame"
    /\ hist' = [HistOther(hist) EXCEPT
                  !.frame = [state |-> IF bl.isEnabled THEN bl.backlightMode
                                       ELSE "disabled",
                             connected |-> {n \in SystemNames : bl.supportedSystems[n]},
                             threw |-> out.threw,
                             dispatches |-> out.dispatches,
                             sends |-> out.sends,
                             govee |-> out.govee,
                             emphasis |-> out.emphasis]]
    /\ UNCHANGED <<options, scans, ro, rec, viz, dialog, call>>

\* the device descriptors connectToSystem is called with: a vendor type,
\* and whether the device at the descriptor's address can be reached
DescriptorTypes == SystemNames \cup {"Nanoleaf"}
Descriptors == [type : DescriptorTypes, reachable : BOOLEAN]

\* one connectToSystem call, or the calls of one batch
SingleConnects == {<<d>> : d \in Descriptors}
ReachableConnects ==
  {<<d>> : d \in {e \in Descriptors : e.reachable /\ e.type \in {"WLED", "Hyperion"}}}
PairConnects == {<<d, e>> : d \in Descriptors, e \in Descriptors}

RECURSIVE setupRuns(_, _)
\* the setup routines a batch of connectToSystem calls runs, in order
setupRuns(s, systems) ==
  IF systems = <<>> THEN <<>>
  ELSE LET run == connectionSetup(s, Head(systems))
           rest == setupRuns(connectToSystem(s, Head(systems)), Tail(systems))
       IN IF run = "none" THEN rest ELSE <<run>> \o rest

\* connectToSystem called for each descriptor of a batch (by the dialog's
\* connectDevice timer for one device, by a forEach for several)
ConnectSystems(batches) ==
  \E batch \in batches :
    LET t == connectAll(Ctl, batch) IN
    /\ bl' = t.bl
    /\ lastOp' = "connectToSystem"
    /\ hist' = [HistOther(hist) EXCEPT
                  !.connect = [batch |-> batch, before |-> bl.supportedSystems,
                               setups |-> setupRuns(Ctl, batch)]]
    /\ UNCHANGED <<options, scans, ro, rec, viz, dialog, call>>

NextFrame ==
  \/ Toggle
  \/ SetMode
  \/ ScanResolved
  \/ ConnectSystems(ReachableConnects)
  \/ ProcessFrame

SpecFrame == Init /\ [][NextFrame]_vars

NextDevices ==
  \/ SetMode
  \/ ScanResolved
  \/ ConnectSystems(SingleConnects)
  \/ ConnectSystems(PairConnects)

SpecDevices == Init /\ [][NextDevices]_vars

----------------------------------------------------------------------------
(* Recording sessions *)

Rec == [ro |-> ro, options |-> options]

\* what can go wrong inside startRecording after enable() has run:
\* canvas.captureStream throws, new MediaRecorder throws (the mime type is
\* not supported), or recorder.start throws
StartFailures == {"none", "captureStream", "MediaRecorder", "start"}

\* a session is in progress: there is a recorder and it is recording
SessionActive ==
  ro.recorder # NoRecorder /\ rec[ro.recorder].state = "recording"

HistStart(h) ==
  [h EXCEPT !.sessPre = Bag3(options),
            !.altOK = h.altOK /\ h.phase = "idle",
            !.enables = h.enables + 1,
            !.starts = h.starts + 1]

\* recordingOptimizer.startRecording(canvas, audioContext)
StartRecording ==
  \E canvas \in BOOLEAN, failure \in StartFailures :
    IF ~canvas
    THEN /\ lastOp' = "startNoCanvas"
         /\ UNCHANGED <<bl, options, scans, ro, rec, hist, viz, dialog, call>>
    ELSE LET r == enable(Rec) IN
         /\ hist.starts < MaxSessions
         /\ options' = r.options
         /\ IF failure \in {"captureStream", "MediaRecorder"}
            THEN /\ ro' = r.ro
                 /\ rec' = rec
                 /\ lastOp' = "startThrew"
                 /\ hist' = HistStart(hist)
            ELSE /\ rec' = Append(rec, NewRecorder(IF failure = "start"
                                                   THEN "inactive" ELSE "recording"))
                 /\ ro' = [r.ro EXCEPT !.recorder = Len(rec) + 1,
                                       !.recordedChunks = 0]
                 /\ lastOp' = IF failure = "start" THEN "startThrew" ELSE "startOK"
                 /\ hist' = IF failure = "start" THEN HistStart(hist)
                            ELSE [HistStart(hist) EXCEPT !.phase = "started"]
         /\ UNCHANGED <<bl, scans, viz, dialog, call>>

\* MediaRecorder.stop() on a recorder that is not recording: it throws
\* InvalidStateError, or returns without firing any event, depending on the
\* browser
InactiveStopOutcomes == {"throws", "returns"}

\* recordingOptimizer.stopRecording(): the promise's executor
StopRecording ==
  \E outcome \in InactiveStopOutcomes :
    /\ IF ro.recorder = NoRecorder
       THEN /\ lastOp' = "stopRejected"
            /\ rec' = rec
            /\ hist' = [hist EXCEPT !.altOK = hist.altOK /\ hist.phase = "started"]
       ELSE LET i == ro.recorder IN
            IF rec[i].state = "recording"
            THEN /\ rec' = [rec EXCEPT ![i].onstop = "pending",
                                       ![i].state = "inactive",
                                       ![i].stopQueued = TRUE]
                 /\ lastOp' = "stopCalled"
                 /\ hist' = [hist EXCEPT !.altOK = hist.altOK /\ hist.phase = "started",
                                         !.phase = "stopping"]
            ELSE IF outcome = "throws"
            THEN /\ rec' = [rec EXCEPT ![i].onstop = "settled"]
                 /\ lastOp' = "stopThrew"
                 /\ hist' = [hist EXCEPT !.altOK = hist.altOK /\ hist.phase = "started",
                                         !.phase = IF hist.phase = "started"
                                                   THEN "idle" ELSE hist.phase]
            ELSE /\ rec' = [rec EXCEPT ![i].onstop = "pending"]
                 /\ lastOp' = "stopIgnored"
                 /\ hist' = [hist EXCEPT !.altOK = hist.altOK /\ hist.phase = "started",
                                         !.phase = IF hist.phase = "started"
                                                   THEN "stopping" ELSE hist.phase]
    /\ UNCHANGED <<bl, options, scans, ro, viz, dialog, call>>

\* the recorder delivers its data and fires its stop event: ondataavailable,
\* then the onstop handler stopRecording installed
StopEvent ==
  \E i \in DOMAIN rec, size \in {0, 1} :
    LET r == disable(Rec) IN
    /\ rec[i].stopQueued
    /\ rec' = [rec EXCEPT ![i].stopQueued = FALSE,
                          ![i].onstop = IF @ = "pending" THEN "settled" ELSE @]
    /\ ro' = [r.ro EXCEPT !.recordedChunks = IF size > 0 THEN @ + 1 ELSE @]
    /\ options' = r.options
    /\ lastOp' = IF rec[i].onstop = "pending" THEN "stopResolved" ELSE "stopEventLate"
    /\ hist' = [hist EXCEPT !.disables = IF disableRefused(Rec) THEN @ ELSE @ + 1,
                            !.phase = IF i = ro.recorder /\ @ = "stopping"
                                      THEN "idle" ELSE @]
    /\ UNCHANGED <<bl, scans, viz, dialog, call>>

\* a recorder that is recording fails (the stream ends, the encoder errors):
\* it becomes inactive; no onerror or onstop handler is installed at that time
RecorderError ==
  \E i \in DOMAIN rec, size \in {0, 1} :
    /\ rec[i].state = "recording"
    /\ rec' = [rec EXCEPT ![i].state = "inactive"]
    /\ ro' = [ro EXCEPT !.recordedChunks = IF size > 0 THEN @ + 1 ELSE @]
    /\ lastOp' = "recorderError"
    /\ UNCHANGED <<bl, options, scans, hist, viz, dialog, call>>

RendererSetOptimizerField ==
  \/ RendererSet("colorSaturation", {100, 110})
  \/ RendererSet("edgeEmphasis", {50, 60})
  \/ RendererSet("visualizationMode", RendererModes)

NextRec ==
  \/ StartRecording
  \/ StopRecording
  \/ StopEvent
  \/ RecorderError
  \/ RendererSetOptimizerField

SpecRec == Init /\ [][NextRec]_vars

----------------------------------------------------------------------------
(* Properties of the controller's snapshot and restore (Spec) *)

\* C1: toggle(true) called while the controller is disabled, directly
\* followed by toggle(false), leaves colorIntensity, edgeFalloff,
\* transitionSpeed and visualizationMode as they were before the pair, for
\* every parameter bag and every backlight mode the pair starts from.
C1_RoundTrip ==
  (lastOp = "toggle(false)" /\ hist.pairClean) => Bag4(options) = hist.preFirst

\* a pair in adaptive mode that overrode and restored all of the parameters
C1_Witness ==
  /\ lastOp = "toggle(false)"
  /\ hist.pairClean
  /\ bl.backlightMode = "adaptive"
  /\ hist.preFirst.visualizationMode = "waveform"
  /\ hist.preFirst.colorIntensity = 105
  /\ bl.previousSettings = hist.preFirst

\* C2: when toggle(true) ran again while a snapshot was outstanding, the
\* next toggle(false) returns the four parameters to their values before
\* the first enable.
C2_SnapshotKept ==
  (lastOp = "toggle(false)" /\ hist.doubleEnable) => Bag4(options) = hist.preFirst

\* C3: a scan that resolves when the mode is no longer direct changes no
\* device record.
C3_StaleScanNoOp ==
  [][(scans' < scans /\ bl.backlightMode # "direct")
       => bl'.supportedSystems = bl.supportedSystems]_vars

\* C9: toggle(false) leaves no snapshot behind, and a toggle(false) made
\* while the controller is already disabled leaves the renderer's
\* parameters as they are.
C9_SnapshotCleared ==
  [][lastOp' = "toggle(false)"
       => /\ bl'.previousSettings = Null
          /\ ~bl.isEnabled => options' = options]_vars

\* C10: after toggle(false) with a snapshot taken, each of the four
\* parameters equals the value stored in the snapshot.
C10_RestoredVerbatim ==
  (lastOp = "toggle(false)" /\ bl.previousSettings # Null)
    => Bag4(options) = bl.previousSettings

----------------------------------------------------------------------------
(* Properties of recording sessions (SpecRec) *)

\* C4: whenever no session is in progress (a session ended normally, or
\* startRecording or the recorder failed), every enable() has been followed
\* by exactly one disable().
C4_EnableDisablePaired ==
  (hist.altOK /\ hist.phase = "idle") => hist.enables = hist.disables

\* C5: startRecording called while a session is active does not start a
\* session and leaves the optimizer, its recorders and the renderer's
\* parameters unchanged.
C5_StartWhileActiveRejected ==
  [][(lastOp' \in {"startOK", "startThrew", "startNoCanvas"} /\ SessionActive)
       => (lastOp' # "startOK" /\ UNCHANGED <<ro, rec, options>>)]_vars

\* C6: when startRecording and stopRecording alternate, each called after
\* the previous call has settled, then at the moment a stopRecording
\* resolves colorSaturation, visualizationMode and edgeEmphasis equal their
\* values just before the matching startRecording.
C6_RecordingRoundTrip ==
  (hist.altOK /\ lastOp = "stopResolved") => Bag3(options) = hist.sessPre

\* the second session in a row resolved and restored values that differ
\* from the recording values
C6_Witness ==
  /\ hist.altOK
  /\ lastOp = "stopResolved"
  /\ hist.starts = 2
  /\ hist.disables = 2
  /\ options.visualizationMode = "waveform"
  /\ options.colorSaturation = 110
  /\ options.edgeEmphasis = 60

\* C7: once a stopRecording has resolved, originalSettings is empty.
C7_OriginalSettingsCleared ==
  lastOp = "stopResolved" => ro.originalSettings = Null

\* C8: stopRecording called when no session is in progress is rejected
\* with 'No recording in progress' and changes nothing.
C8_StopWithoutSessionRejected ==
  [][(lastOp' \in {"stopRejected", "stopCalled", "stopThrew", "stopIgnored"}
        /\ ~SessionActive)
       => (lastOp' = "stopRejected" /\ UNCHANGED <<ro, rec, options>>)]_vars

----------------------------------------------------------------------------
(* Properties of the controller's mode state machine (Spec) *)

\* the state of the controller: Disabled, or the mode it is enabled in
ControllerState(b) == IF b.isEnabled THEN b.backlightMode ELSE "disabled"

\* the tuning triple
Tuning(b) == <<b.edgeEmphasis, b.colorSaturation, b.smoothingFactor>>

\* C11: when toggle(true) or setMode moves the controller from another
\* state into enabled adaptive, the renderer's visualizationMode becomes
\* 'backlight' and the prior mode is recorded for the restore.
C11_EnteringAdaptiveApplies ==
  [][(/\ lastOp' \in {"toggle(true)", "setMode"}
      /\ ControllerState(bl) # "adaptive"
      /\ ControllerState(bl') = "adaptive")
       => /\ options'.visualizationMode = "backlight"
          /\ Truthy(bl'.previousVisualizationMode)]_vars

\* C12: the controller starts Disabled; after toggle(true) it is in the mode
\* of the latest setMode (adaptive when there was none), after toggle(false)
\* it is Disabled.
C12_ToggleStateMachine ==
  /\ lastOp = "new" => ControllerState(bl) = "disabled"
  /\ lastOp = "toggle(false)" => ControllerState(bl) = "disabled"
  /\ lastOp = "toggle(true)" =>
       ControllerState(bl) = IF hist.selected = "none" THEN "adaptive"
                             ELSE hist.selected

\* enabled again in the mode selected before a disable
C12_Witness ==
  /\ lastOp = "toggle(true)"
  /\ hist.pairClean
  /\ hist.selected = "ambilight"
  /\ ControllerState(bl) = "ambilight"
  /\ bl.previousSettings # Null

\* C13: setMode sets the tuning triple to 0.7/1.2/0.3 for adaptive and to
\* 0.9/1.4/0.2 for ambilight; for direct it leaves the triple as it was and
\* starts one scan.
C13_ModeTuning ==
  [][lastOp' = "setMode" =>
       CASE bl'.backlightMode = "adaptive" -> Tuning(bl') = <<70, 120, 30>>
         [] bl'.backlightMode = "ambilight" -> Tuning(bl') = <<90, 140, 20>>
         [] bl'.backlightMode = "direct" ->
              Tuning(bl') = Tuning(bl) /\ scans' = scans + 1]_vars

\* direct selected after ambilight and after adaptive: the triple stays
C13_Witness ==
  /\ lastOp = "setMode"
  /\ bl.backlightMode = "direct"
  /\ Tuning(bl) = <<70, 120, 30>>
  /\ scans = 1
  /\ bl.supportedSystems["Govee"]

----------------------------------------------------------------------------
(* Device dispatch *)

\* C14: device dispatch happens only in a frame processed while the
\* controller is enabled and in direct mode, and at most once per processed
\* frame; a frame processed in Disabled, Adaptive or Ambilight sends to no
\* device and builds no payload.
C14_DispatchOnlyInDirect ==
  lastOp = "processFrame" =>
    /\ hist.frame.dispatches <= 1
    /\ hist.frame.dispatches = 1 => hist.frame.state = "direct"
    /\ hist.frame.sends # <<>> => hist.frame.dispatches = 1
    /\ hist.frame.state \in {"disabled", "adaptive", "ambilight"} =>
         /\ hist.frame.dispatches = 0
         /\ hist.frame.sends = <<>>
         /\ hist.frame.govee = <<>>
    /\ \A i, j \in 1..Len(hist.frame.sends) :
         hist.frame.sends[i] = hist.frame.sends[j] => i = j

\* a frame processed in direct mode with two systems connected: one
\* dispatch, a send to each of the two, and an emphasis-free frame
C14_Witness ==
  /\ lastOp = "processFrame"
  /\ hist.frame.state = "direct"
  /\ hist.frame.dispatches = 1
  /\ hist.frame.sends = <<"Govee", "WLED">>
  /\ ~hist.frame.emphasis

\* C15: in each dispatch a send is attempted for every system whose record
\* is connected when the frame is processed, whichever vendor it is.
C15_EveryConnectedSent ==
  (lastOp = "processFrame" /\ hist.frame.dispatches = 1) =>
    \A n \in hist.frame.connected :
      \E i \in 1..Len(hist.frame.sends) : hist.frame.sends[i] = n

\* every zone of the sequence holds three bytes read inside the pixel array
Defined(colorArray) ==
  \A i \in 1..Len(colorArray) : \A c \in 1..3 : colorArray[i][c] # UndefinedByte

\* C17: when a frame whose top zones were all read inside the pixel array
\* is dispatched, the color of the Govee payload is getAverageColorString
\* of an edge sequence of the frame with the controller's saturation.
C17_PayloadIsAggregate ==
  (/\ lastOp = "processFrame"
   /\ hist.frame.govee # <<>>
   /\ Defined(bl.edgeZones.top)) =>
    \E edge \in {"top", "bottom", "left", "right"} :
      hist.frame.govee[1] =
        getAverageColorString(bl.edgeZones[edge], bl.colorSaturation)

\* C18: in a batch of connectToSystem calls, the record of a supported
\* vendor whose only descriptors in the batch are unreachable stays
\* disconnected when it was disconnected, and the vendor of a reachable
\* descriptor ends connected.
C18_UnreachableStaysDisconnected ==
  lastOp = "connectToSystem" =>
    \A i \in 1..Len(hist.connect.batch) :
      LET d == hist.connect.batch[i] IN
      d.type \in SystemNames =>
        /\ d.reachable => bl.supportedSystems[d.type]
        /\ (/\ ~d.reachable
            /\ ~hist.connect.before[d.type]
            /\ \A j \in 1..Len(hist.connect.batch) :
                 hist.connect.batch[j].type = d.type =>
                   ~hist.connect.batch[j].reachable)
             => ~bl.supportedSystems[d.type]

\* C19: connectToSystem for a system whose record is already connected is a
\* no-op: the controller and the renderer's options stay as they were and
\* no connection setup routine runs.
C19_ConnectIdempotent ==
  [][(/\ lastOp' = "connectToSystem"
      /\ Len(hist'.connect.batch) = 1
      /\ hist'.connect.batch[1].type \in SystemNames
      /\ hist'.connect.batch[1].reachable
      /\ bl.supportedSystems[hist'.connect.batch[1].type])
       => /\ bl' = bl
          /\ options' = options
          /\ scans' = scans
          /\ hist'.connect.setups = <<>>]_vars

\* C20: top and bottom hold 16 zones each, left and right 9 each, in every
\* state, whatever frames were processed.
C20_ZoneLengths ==
  /\ Len(bl.edgeZones.top) = topBottomCount
  /\ Len(bl.edgeZones.bottom) = topBottomCount
  /\ Len(bl.edgeZones.left) = leftRightCount
  /\ Len(bl.edgeZones.right) = leftRightCount
  /\ topBottomCount = 16
  /\ leftRightCount = 9

\* a 32 x 2 frame has been sampled: the top row read is outside the pixel
\* array, the zones hold what the read gave, and the lengths are kept
C20_Witness ==
  /\ lastOp = "processFrame"
  /\ ~hist.frame.threw
  /\ hist.frame.state # "disabled"
  /\ bl.edgeZones # initializeEdgeZones
  /\ bl.edgeZones.top[1] = <<UndefinedByte, UndefinedByte, UndefinedByte>>
  /\ bl.edgeZones.left[1] # <<UndefinedByte, UndefinedByte, UndefinedByte>>
  /\ Len(bl.edgeZones.top) = 16
  /\ Len(bl.edgeZones.right) = 9

----------------------------------------------------------------------------
(* Degenerate frames *)

\* C21: a processFrame call with a frame of zero width or zero height
\* raises no error and leaves every zone of the four edges as it was.
C21_DegenerateFrameNoError ==
  [][\A f \in Frames :
       (/\ f.width = 0 \/ f.height = 0
        /\ lastOp' = "processFrame"
        /\ hist'.frame.threw = processFrame(Ctl, f).threw
        /\ bl' = processFrame(Ctl, f).s.bl)
         => /\ ~hist'.frame.threw
            /\ bl'.edgeZones = bl.edgeZones]_vars

----------------------------------------------------------------------------
(* Configuration values that are out of range (SpecConfig) *)

\* mode arguments setMode can be called with that are none of its cases
UnknownModes == {"rainbow"}

\* backlightSystem.setMode(mode) with such an argument
SetModeUnknown ==
  \E mode \in UnknownModes :
    LET t == setMode(Ctl, mode) IN
    /\ bl' = t.bl
    /\ scans' = t.scans
    /\ lastOp' = "setMode"
    /\ hist' = [HistOther(hist) EXCEPT !.selected = mode]
    /\ UNCHANGED <<options, ro, rec, viz, dialog, call>>

\* what localStorage's backlightConfig item can parse to: a configuration a
\* former session saved, or one some other script or user wrote
SavedConfigs ==
  [enabled : BOOLEAN, mode : {"ambilight", "rainbow"}, edgeEmphasis : {250},
   colorSaturation : {110, 300}, smoothingFactor : {40},
   transitionSpeed : {"instant"}]

\* dialog.init(container): loadConfig() replaces this.config by the parsed item
LoadConfig ==
  \E saved \in SavedConfigs :
    /\ dialog' = [dialog EXCEPT !.config = saved]
    /\ lastOp' = "loadConfig"
    /\ hist' = HistOther(hist)
    /\ UNCHANGED <<bl, options, scans, ro, rec, viz, call>>

\* dialog.applyConfig() called with the configuration the dialog holds
ApplyHeldConfig ==
  LET t == applyConfig(Ctl, dialog.config) IN
  /\ bl' = t.bl
  /\ options' = t.options
  /\ scans' = t.scans
  /\ lastOp' = "applyConfig"
  /\ hist' = [HistOther(HistToggle(hist, bl.isEnabled, options, dialog.config.enabled))
                EXCEPT !.selected = dialog.config.mode]
  /\ UNCHANGED <<ro, rec, viz, dialog, call>>

NextConfig ==
  \/ Toggle
  \/ SetModeUnknown
  \/ LoadConfig
  \/ ApplyHeldConfig

SpecConfig == Init /\ [][NextConfig]_vars

\* C22: in every reachable state the controller's edgeEmphasis is in
\* [0, 1], its colorSaturation in [0.5, 1.5], its smoothingFactor in
\* [0, 1], its transitionSpeed one of slow, medium, fast and its mode one
\* of adaptive, direct, ambilight: a value outside is never stored.
C22_ConfigInRange ==
  /\ bl.edgeEmphasis \in 0..100
  /\ bl.colorSaturation \in 50..150
  /\ bl.smoothingFactor \in 0..100
  /\ bl.transitionSpeed \in TransitionSpeeds
  /\ bl.backlightMode \in BacklightModes

----------------------------------------------------------------------------
(* The controller's and the recording optimizer's overrides of the same    *)
(* parameter bag, by callers that pair their calls (SpecOverride)          *)

\* toggle(true) while disabled, toggle(false) while enabled
PairedToggle == Toggle /\ bl'.isEnabled # bl.isEnabled

\* recordingOptimizer.enable() while its override is off
OptimizerEnable ==
  LET r == enable(Rec) IN
  /\ ~ro.isEnabled
  /\ ro' = r.ro
  /\ options' = r.options
  /\ lastOp' = "enable"
  /\ hist' = HistOther(hist)
  /\ UNCHANGED <<bl, scans, rec, viz, dialog, call>>

\* recordingOptimizer.disable() while its override is on
OptimizerDisable ==
  LET r == disable(Rec) IN
  /\ ro.isEnabled
  /\ ro' = r.ro
  /\ options' = r.options
  /\ lastOp' = "disable"
  /\ hist' = HistOther(hist)
  /\ UNCHANGED <<bl, scans, rec, viz, dialog, call>>

NextOverride ==
  \/ PairedToggle
  \/ SetMode
  \/ ScanResolved
  \/ OptimizerEnable
  \/ OptimizerDisable

SpecOverride == Init /\ [][NextOverride]_vars

\* C23: whenever the controller is disabled and the recording override is
\* off, the renderer's visualizationMode is the one it had before the first
\* override, for every interleaving of paired toggle and enable/disable
\* calls.  (Only the overrides write visualizationMode here, so the value
\* before the first override is the one the renderer started with.)
C23_OverridesReversible ==
  (~bl.isEnabled /\ ~ro.isEnabled) => options.visualizationMode = "spectrum"

----------------------------------------------------------------------------
(* getAverageColorString as a function of the zone sequence and the        *)
(* controller's saturation (SpecAggregate)                                 *)

\* the longest zone sequence given to getAverageColorString
MaxZones == 3

\* zone colors: black, white, two mixed colors, and a zone read outside
\* the pixel array
ZoneColors ==
  {<<0, 0, 0>>, <<255, 255, 255>>, <<45, 90, 200>>, <<1, 2, 4>>,
   <<UndefinedByte, UndefinedByte, UndefinedByte>>}

ColorArrays == UNION {[1..n -> ZoneColors] : n \in 0..MaxZones}

\* values of this.colorSaturation: 0.5, 1.0, 1.4, 1.5
Saturations == {50, 100, 140, 150}

\* the orders a sequence of n zones can be given in
Orders(n) ==
  {p \in [1..n -> 1..n] : \A i, j \in 1..n : p[i] = p[j] => i = j}

\* a sequence and a saturation, before any call
InitAggregate ==
  /\ \E saturation \in Saturations :
       bl = [BacklightSystemInit EXCEPT !.colorSaturation = saturation]
  /\ viz = BacklightVisualizerInit(FALSE, NoCanvas)
  /\ \E colorArray \in ColorArrays :
       call = [op |-> "arguments", colorArray |-> colorArray,
               permuted |-> colorArray, result |-> <<>>, permResult |-> <<>>]
  /\ InitRest

\* getAverageColorString(colorArray), and the same call with the sequence
\* in another order
GetAverageColorString ==
  \E p \in Orders(Len(call.colorArray)) :
    LET permuted == [i \in 1..Len(call.colorArray) |-> call.colorArray[p[i]]] IN
    /\ call' = [call EXCEPT
                  !.op = "getAverageColorString",
                  !.permuted = permuted,
                  !.result = getAverageColorString(call.colorArray, bl.colorSaturation),
                  !.permResult = getAverageColorString(permuted, bl.colorSaturation)]
    /\ lastOp' = "getAverageColorString"
    /\ UNCHANGED <<bl, options, scans, ro, rec, viz, dialog, hist>>

NextAggregate == GetAverageColorString

SpecAggregate == InitAggregate /\ [][NextAggregate]_vars

\* C24: getAverageColorString gives the same color for a zone sequence and
\* for every permutation of it, and the same color again when it is called
\* again with the same sequence and saturation.
C24_OrderIndependent ==
  [][call'.op = "getAverageColorString" =>
       /\ call'.result = call'.permResult
       /\ call.op = "getAverageColorString" => call'.result = call.result]_vars

\* a sequence of three different colors was averaged in another order,
\* after an earlier call, with the same defined result
C24_Witness ==
  /\ call.op = "getAverageColorString"
  /\ call.colorArray = <<<<45, 90, 200>>, <<1, 2, 4>>, <<255, 255, 255>>>>
  /\ call.permuted = <<<<255, 255, 255>>, <<45, 90, 200>>, <<1, 2, 4>>>>
  /\ bl.colorSaturation = 140
  /\ call.result = <<140, 161, 214>>
  /\ call.permResult = call.result

\* the sum of channel c over a sequence of byte-valued colors
RECURSIVE ByteSum(_, _)
ByteSum(colorArray, c) ==
  IF colorArray = <<>> THEN 0
  ELSE Head(colorArray)[c] + ByteSum(Tail(colorArray), c)

\* the integer part of the exact mean of channel c times the saturation,
\* clamped to 255
ExactChannel(colorArray, saturation, c) ==
  LET exact == (ByteSum(colorArray, c) * saturation) \div (Len(colorArray) * 100)
  IN IF exact > 255 THEN 255 ELSE exact

\* the floor of the mean of channel c, times the saturation, floored and
\* clamped to 255, in exact arithmetic
FlooredChannel(colorArray, saturation, c) ==
  LET floored == ((ByteSum(colorArray, c) \div Len(colorArray)) * saturation) \div 100
  IN IF floored > 255 THEN 255 ELSE floored

\* getAverageColorString was called with a non-empty sequence of
\* byte-valued colors
ByteValuedCall ==
  /\ call.op = "getAverageColorString"
  /\ call.colorArray # <<>>
  /\ Defined(call.colorArray)

\* C25 as stated: for a non-empty sequence of byte-valued colors and a
\* saturation in [0.5, 1.5], each channel of the result is the mean of the
\* channel multiplied by the saturation and clamped, and lies in [0, 255].
C25_MeanTimesSaturation ==
  ByteValuedCall =>
    \A c \in 1..3 :
      /\ call.result[c] \in 0..255
      /\ call.result[c] = ExactChannel(call.colorArray, bl.colorSaturation, c)

\* C25 amended: each channel of the result lies in [0, 255] and is the
\* floor of the channel's mean, multiplied by the saturation, floored and
\* clamped to 255, or one less where the double product falls just below
\* an integer; it is never above the exact mean times the saturation and
\* at most 3 below it.
C25_FlooredMeanTimesSaturation ==
  ByteValuedCall =>
    \A c \in 1..3 :
      LET floored == FlooredChannel(call.colorArray, bl.colorSaturation, c)
          exact == ExactChannel(call.colorArray, bl.colorSaturation, c)
      IN /\ call.result[c] \in 0..255
         /\ call.result[c] \in {floored, floored - 1}
         /\ call.result[c] <= exact
         /\ call.result[c] >= exact - 3

\* one color at saturation 1.4: 45 * 1.4 and 90 * 1.4 floor to one less
\* than the exact products 63 and 126, and 200 * 1.4 is clamped
C25_Witness ==
  /\ ByteValuedCall
  /\ call.colorArray = <<<<45, 90, 200>>>>
  /\ bl.colorSaturation = 140
  /\ call.result = <<62, 125, 255>>

----------------------------------------------------------------------------
(* sampleEdgeColors as a function of the frame (SpecSample) *)

\* the largest frame sampled
MaxFrameWidth == 12
MaxFrameHeight == 6

SampleFrames ==
  [width : 1..MaxFrameWidth, height : 1..MaxFrameHeight, image : {"flat", "ramp"}]

\* backlightSystem.sampleEdgeColors(ctx, width, height)
SampleEdgeColors ==
  \E f \in SampleFrames :
    /\ bl' = sampleEdgeColors(Ctl, f).bl
    /\ call' = [op |-> "sampleEdgeColors", frame |-> f]
    /\ lastOp' = "sampleEdgeColors"
    /\ UNCHANGED <<options, scans, ro, rec, viz, dialog, hist>>

NextSample == SampleEdgeColors

SpecSample == Init /\ [][NextSample]_vars

\* the pixel column of top and bottom zone i, the pixel row of left and
\* right zone j (i and j count from 0)
ZoneColumn(i, width) == (i * width) \div topBottomCount
ZoneRow(j, height) == (j * height) \div leftRightCount

\* C26: after sampleEdgeColors on a frame at least 3 wide and 3 high, top
\* zone i holds the pixel at (floor(i * width / 16), 2), bottom zone i the
\* pixel at (the same x, height - 3), left zone j the pixel at
\* (2, floor(j * height / 9)) and right zone j the pixel at
\* (width - 3, the same y); these positions lie inside the frame and do not
\* decrease with the zone index.
C26_SamplePositions ==
  (/\ call.op = "sampleEdgeColors"
   /\ call.frame.width >= 3
   /\ call.frame.height >= 3) =>
    LET f == call.frame IN
    /\ \A i \in 0..(topBottomCount - 1) :
         /\ bl.edgeZones.top[i + 1] = Pixel(f, ZoneColumn(i, f.width), 2)
         /\ bl.edgeZones.bottom[i + 1] = Pixel(f, ZoneColumn(i, f.width), f.height - 3)
         /\ ZoneColumn(i, f.width) \in 0..(f.width - 1)
         /\ i > 0 => ZoneColumn(i - 1, f.width) <= ZoneColumn(i, f.width)
    /\ \A j \in 0..(leftRightCount - 1) :
         /\ bl.edgeZones.left[j + 1] = Pixel(f, 2, ZoneRow(j, f.height))
         /\ bl.edgeZones.right[j + 1] = Pixel(f, f.width - 3, ZoneRow(j, f.height))
         /\ ZoneRow(j, f.height) \in 0..(f.height - 1)
         /\ j > 0 => ZoneRow(j - 1, f.height) <= ZoneRow(j, f.height)
    /\ 2 \in 0..(f.height - 1) /\ f.height - 3 \in 0..(f.height - 1)
    /\ 2 \in 0..(f.width - 1) /\ f.width - 3 \in 0..(f.width - 1)

\* a 12 x 6 frame whose red rises with x and whose green rises with y was
\* sampled: top zone 8 holds the pixel (6, 2), right zone 8 the pixel (9, 5)
C26_Witness ==
  /\ call.op = "sampleEdgeColors"
  /\ call.frame = [width |-> 12, height |-> 6, image |-> "ramp"]
  /\ bl.edgeZones.top[9] = <<48, 16, 200>>
  /\ bl.edgeZones.right[9] = <<72, 40, 200>>
  /\ bl.edgeZones.bottom[1] = <<0, 24, 200>>

----------------------------------------------------------------------------
(* The renderer's overridden fields while the controller is enabled *)

\* C27: in every enabled state a call of the controller has just produced
\* (toggle(true), setMode), the renderer's colorIntensity is the
\* controller's colorSaturation, its edgeFalloff the controller's
\* edgeEmphasis and its transitionSpeed the configured speed.
C27_OverridesTrackConfig ==
  (bl.isEnabled /\ lastOp \in {"toggle(true)", "setMode"}) =>
    /\ options.colorIntensity = bl.colorSaturation
    /\ options.edgeFalloff = bl.edgeEmphasis
    /\ options.transitionSpeed = bl.transitionSpeed

----------------------------------------------------------------------------
(* BacklightVisualizer.draw (SpecViz) *)

\* the largest canvas, and the number of frames drawn
MaxCanvasWidth == 5
MaxCanvasHeight == 2
MaxDraws == 2

\* what the canvas can show after the bars and the edge emphasis are drawn
PictureKinds == {"flat", "ramp", "steps"}

\* a visualizer on a canvas of some size, with or without mirror mode
InitViz ==
  /\ bl = BacklightSystemInit
  /\ \E mirrorMode \in BOOLEAN, width \in 1..MaxCanvasWidth,
        height \in 1..MaxCanvasHeight :
       viz = BacklightVisualizerInit(
               mirrorMode,
               [width |-> width, height |-> height,
                data |-> [k \in 1..(width * height * 4) |-> 0]])
  /\ call = NoCall
  /\ InitRest

\* backlightVisualizer.draw() for one animation frame
Draw ==
  \E tall \in AudioFrames, image \in PictureKinds :
    LET picture == [width |-> viz.canvas.width, height |-> viz.canvas.height,
                    image |-> image] IN
    /\ Len(viz.edgePoints.left) < 4 * MaxDraws
    /\ viz' = draw(viz, tall, picture)
    /\ call' = [op |-> "draw", drawn |-> imageData(picture)]
    /\ lastOp' = "draw"
    /\ UNCHANGED <<bl, options, scans, ro, rec, dialog, hist>>

NextViz == Draw

SpecViz == InitViz /\ [][NextViz]_vars

\* the index of byte c of pixel (x, y) in the canvas' pixel sequence
ByteOf(x, y, c) == (y * viz.canvas.width + x) * 4 + c + 1

\* C28: after draw() in mirror mode every pixel's R, G and B equal those of
\* its horizontal mirror pixel, each the floor of the average of the two
\* values the emphasis drawing left, alpha is as drawn, and a second mirror
\* pass changes nothing, for even and odd widths.
C28_MirrorSymmetric ==
  (call.op = "draw" /\ viz.mirrorMode) =>
    LET data == viz.canvas.data
        width == viz.canvas.width
        height == viz.canvas.height
    IN /\ Len(data) = width * height * 4
       /\ \A x \in 0..(width - 1), y \in 0..(height - 1) :
            /\ \A c \in 0..2 :
                 /\ data[ByteOf(x, y, c)] = data[ByteOf(width - 1 - x, y, c)]
                 /\ data[ByteOf(x, y, c)] =
                      (call.drawn[ByteOf(x, y, c)] +
                       call.drawn[ByteOf(width - 1 - x, y, c)]) \div 2
            /\ data[ByteOf(x, y, 3)] = call.drawn[ByteOf(x, y, 3)]
       /\ applyMirrorEffect(width, height, data) = data

\* a 5 x 2 canvas in mirror mode after a second draw: the pixels (0, 1) and
\* (4, 1) both hold the floored averages of the drawn (11, 1, 255) and
\* (159, 81, 223), which the drawn picture did not have
C28_Witness ==
  /\ call.op = "draw"
  /\ viz.mirrorMode
  /\ viz.canvas.width = 5 /\ viz.canvas.height = 2
  /\ Len(viz.edgePoints.left) = 8
  /\ call.drawn[ByteOf(0, 1, 0)] = 11
  /\ call.drawn[ByteOf(4, 1, 0)] = 159
  /\ viz.canvas.data[ByteOf(0, 1, 0)] = 85
  /\ viz.canvas.data[ByteOf(4, 1, 1)] = 41
  /\ viz.canvas.data[ByteOf(4, 1, 2)] = 239
  /\ viz.canvas.data[ByteOf(2, 1, 0)] = call.drawn[ByteOf(2, 1, 0)]

\* C29: after every draw() call edgePoints.left and edgePoints.right hold
\* exactly 4 entries each and edgePoints.top and edgePoints.bottom at most
\* 4 each.
C29_EdgePointsPerFrame ==
  call.op = "draw" =>
    /\ Len(viz.edgePoints.left) = 4
    /\ Len(viz.edgePoints.right) = 4
    /\ Len(viz.edgePoints.top) <= 4
    /\ Len(viz.edgePoints.bottom) <= 4

----------------------------------------------------------------------------
(* The device records under the dialog's and the controller's operations   *)
(* (SpecRegistry)                                                          *)

\* the timer of scanForDevices fires: the dialog lists fresh device objects
DialogScanResolved ==
  /\ dialog' = scanForDevices(dialog)
  /\ lastOp' = "scanForDevices"
  /\ hist' = HistOther(hist)
  /\ UNCHANGED <<bl, options, scans, ro, rec, viz, call>>

\* the Connect button of a listed device that is not connected, and the
\* timer it starts
ConnectDevice ==
  \E type \in DialogDeviceTypes, reachable \in BOOLEAN :
    LET out == connectDevice(Ctl, dialog, [type |-> type, reachable |-> reachable]) IN
    /\ dialog.listed
    /\ ~dialog.devices[type]
    /\ bl' = out.s.bl
    /\ dialog' = out.d
    /\ lastOp' = "connectDevice"
    /\ hist' = HistOther(hist)
    /\ UNCHANGED <<options, scans, ro, rec, viz, call>>

\* the Disconnect button of a listed device that is connected, and the
\* timer it starts
DisconnectDevice ==
  \E type \in DialogDeviceTypes :
    LET out == disconnectDevice(Ctl, dialog, [type |-> type, reachable |-> TRUE]) IN
    /\ dialog.listed
    /\ dialog.devices[type]
    /\ bl' = out.s.bl
    /\ dialog' = out.d
    /\ lastOp' = "disconnectDevice"
    /\ hist' = HistOther(hist)
    /\ UNCHANGED <<options, scans, ro, rec, viz, call>>

\* connectToSystem called with a type that is not a supported vendor
UnsupportedConnects ==
  {<<d>> : d \in {e \in Descriptors : e.type \notin SystemNames}}

NextRegistry ==
  \/ Toggle
  \/ SetMode
  \/ ScanResolved
  \/ DialogScanResolved
  \/ ConnectDevice
  \/ DisconnectDevice
  \/ ConnectSystems(UnsupportedConnects)

SpecRegistry == Init /\ [][NextRegistry]_vars

============================================================================
